---- MODULE Spec2Model ----
(***************************************************************************)
(* Email-Classifier: the classification workflow around the persistence    *)
(* layer of backend/src/database (models.py, enums.py) and the settings of *)
(* backend/src/config.py.  The persistence layer (tables, defaults, unique *)
(* and check constraints) and the idempotency key helper are translated    *)
(* from the source.  The services the tests patch                          *)
(* (src.services.workflow_orchestrator and its collaborators) have no      *)
(* source in the repository; their steps follow spec.md section 4 and are  *)
(* marked "spec" in the comments below.                                    *)
(***************************************************************************)
EXTENDS Integers, Sequences, FiniteSets, TLC

(***************************************************************************)
(* Bounds of the model.                                                    *)
(***************************************************************************)
MaxIdLen == 2
MaxDeliveries == 2
MaxFeedback == 2
MaxNormalEmails == 5
MaxProblemEmails == 3
MaxConcurrencySetting == 3
MaxBatch == 3

(***************************************************************************)
(* Program constants.                                                      *)
(***************************************************************************)
\* models.py:120  jsonb_array_length(action_items) <= 10
MaxActionItems == 10
\* models.py:119  array_length(secondary_categories, 1) <= 3
MaxSecondaryLoose == MaxActionItems
MaxSecondary == 3
\* models.py:121  length(rationale) <= 200
MaxRationale == 200
\* models.py:118  confidence >= 0 AND confidence <= 1, in hundredths (NUMERIC(3,2))
ConfidenceMin == 0
ConfidenceMax == 100
\* config.py:249  classify_concurrency default=2, ge=1
ClassifyConcurrency == 2
\* test_error_handling.py:79  MAX_RETRY_ATTEMPTS = 3
MaxRetryAttemptsLoose == MaxActionItems
MaxRetryAttempts == 3
\* test_error_handling.py:377  QUARANTINE_THRESHOLD = 3
QuarantineThreshold == 3
\* test_error_handling.py:755  CIRCUIT_BREAKER_THRESHOLD = 2
CircuitBreakerThreshold == 2
\* test_error_handling.py:760  MAX_CONCURRENT_FAILURES = 3
MaxConcurrentFailures == 3

(***************************************************************************)
(* enums.py: EmailStatus.                                                  *)
(***************************************************************************)
PENDING == "pending"
CLASSIFYING == "classifying"
CLASSIFIED == "classified"
FAILED == "failed"
QUARANTINED == "quarantined"
EmailStatus == {PENDING, CLASSIFYING, CLASSIFIED, FAILED, QUARANTINED}

\* models.py: Email.classification_status default
DefaultStatus == PENDING
\* models.py: ClassificationResult.schema_version default
DefaultSchemaVersion == <<"v", "2">>

(***************************************************************************)
(* The idempotency key, test_idempotency.py generate_idempotency_key:      *)
(*     combined = f"{message_id}:{schema_version}"                         *)
(*     return hashlib.sha256(combined.encode()).hexdigest()                *)
(* Strings are sequences of characters.  encode() and sha256 are taken as  *)
(* injective on the strings of the model (collision resistance): the       *)
(* digest of s is the tagged value <<"sha256", s>>.                        *)
(***************************************************************************)
Alphabet == {"a", "A", ":"}

RECURSIVE StringsUpTo(_)
StringsUpTo(n) ==
    IF n = 0 THEN {<<>>}
    ELSE LET shorter == StringsUpTo(n - 1)
         IN  shorter \cup {Append(s, c) : s \in shorter, c \in Alphabet}

Strings == StringsUpTo(MaxIdLen)

Combined(message_id, schema_version) == message_id \o <<":">> \o schema_version

Sha256Hex(s) == <<"sha256", s>>

generate_idempotency_key(message_id, schema_version) ==
    Sha256Hex(Combined(message_id, schema_version))

(***************************************************************************)
(* The entities of the workflow model.  Message identities and schema      *)
(* versions are strings.  The mailbox holds two messages.  The workflow is *)
(* followed in full for the first, which the poller may deliver more than  *)
(* once to the workers of the pool; the two together are followed through  *)
(* the cycles of one process (SpecTwo).                                    *)
(***************************************************************************)
Messages == {<<"a">>, <<"A">>}
Polled == {<<"a">>}
V2 == DefaultSchemaVersion
V3 == <<"v", "3">>
Versions == {V2, V3}
Workers == 1..ClassifyConcurrency

(***************************************************************************)
(* Classifier outputs (conftest.py classification_result_samples, the      *)
(* mocks of test_error_handling.py): confidence in hundredths, the number  *)
(* of secondary categories and action items, the rationale's length and    *)
(* the schema version tag.                                                 *)
(***************************************************************************)
Output(c, s, a, r, v) ==
    [confidence |-> c, secondary |-> s, action_items |-> a, rationale |-> r,
     schema_version |-> v]

ValidOutputs == {Output(85, 1, 1, 40, v) : v \in Versions}
                  \cup {Output(100, 3, 10, 200, v) : v \in Versions}
InvalidOutputs == {Output(150, 0, 0, 40, v) : v \in Versions}
                    \cup {Output(-10, 0, 0, 40, v) : v \in Versions}
                    \cup {Output(80, 4, 0, 40, v) : v \in Versions}
                    \cup {Output(80, 0, 11, 40, v) : v \in Versions}
                    \cup {Output(80, 0, 0, 201, v) : v \in Versions}
ClassifierOutputs == ValidOutputs \cup InvalidOutputs
\* test_error_handling.py:478  the classification supplied by a manual review
ManualOutput(v) == Output(70, 0, 0, 0, v)

(***************************************************************************)
(* models.py: the classifications table.  A row is a ClassificationResult; *)
(* the table is the sequence of inserted rows.                             *)
(***************************************************************************)
Row(email_id, out) ==
    [email_id |-> email_id, schema_version |-> out.schema_version,
     confidence |-> out.confidence, secondary |-> out.secondary,
     action_items |-> out.action_items, rationale |-> out.rationale]

\* the index lookup on classifications.email_id (unique=True, idx_classifications_email)
RowsForEmailBug(table, email_id) == {}
RowsForEmail(table, email_id) ==
    {i \in DOMAIN table : table[i].email_id = email_id}

\* __table_args__: the four CheckConstraints
CheckConstraints(row) ==
    /\ row.confidence >= ConfidenceMin /\ row.confidence <= ConfidenceMax
    /\ row.secondary <= MaxSecondary
    /\ row.action_items <= MaxActionItems
    /\ row.rationale <= MaxRationale

\* INSERT INTO classifications: refused (IntegrityError) on a constraint
InsertAllowed(table, row) ==
    /\ RowsForEmail(table, row.email_id) = {}
    /\ CheckConstraints(row)

InsertDropped(table, row) == table
Insert(table, row) == IF InsertAllowed(table, row) THEN Append(table, row) ELSE table

(***************************************************************************)
(* State.  Durable (the database): status, table, tally.  In the memory of *)
(* the orchestrator process: everything else.                              *)
(***************************************************************************)
VARIABLES
    status,         \* emails.classification_status of every message
    table,          \* the classifications table
    tally,          \* FailureTally per message: count and last error class
    schemaVersion,  \* the schema version the running process classifies under
    phase,          \* "idle" between polling cycles, "running" within one
    deliveries,     \* the polled batch: deliveries of each message still queued
    claimed,        \* idempotency keys enqueued in this cycle
    worker,         \* per worker: pc, message, attempts, context, output
    breaker,        \* the classifier's circuit breaker
    calls,          \* dependency calls made for each message in this cycle
    cyc,            \* the ProcessingCycle record of the current cycle
    keyIn,          \* inputs of the key function under study
    keyOut,         \* the keys computed for keyIn
    feedback,       \* the feedback table: the incorporated flag of every record
    contextStore,   \* the committed context entries the retriever reads
    loop,           \* the Feedback Incorporation Loop's process
    batchRun,       \* one run of the resilient batch processing of the tests
    pool,           \* the worker pool under a CLASSIFY_CONCURRENCY setting
    invoked,        \* history: the messages the classifier has been called for
    healthy         \* environment: the classifier has recovered and answers

wvars == <<status, table, tally, schemaVersion, phase, deliveries, claimed,
           worker, breaker, calls, cyc>>
kvars == <<keyIn, keyOut>>
fvars == <<feedback, contextStore, loop>>
bvars == <<batchRun>>
pvars == <<pool>>
hvars == <<invoked>>
evars == <<healthy>>
vars == <<wvars, kvars, fvars, bvars, pvars, hvars, evars>>

NoMsg == <<>>
NoOut == Output(0, 0, 0, 0, <<>>)
IdleWorker ==
    [pc |-> "idle", msg |-> NoMsg, attempts |-> 0, ctx |-> "none", rerr |-> "none",
     err |-> "none", out |-> NoOut]
ClosedBreaker == [state |-> "closed", failures |-> 0, probe |-> 0]
NewCycle == [scanned |-> 0, classified |-> 0, failed |-> 0, skipped |-> 0]
NoCalls == [retrieve |-> 0, classify |-> 0, retries |-> 0]
NoTally == [count |-> 0, last_error |-> "none"]

\* the feedback table: UserFeedback rows, of which the model keeps the
\* incorporated column; a new row takes the column's default
FeedbackIds == 1..MaxFeedback
NoRecord == 0
DefaultIncorporatedSet == TRUE
DefaultIncorporated == FALSE
NewFeedback == [incorporated |-> DefaultIncorporated]
NoFeedback == [f \in {} |-> NewFeedback]
IdleLoop ==
    [pc |-> "idle", queue |-> {}, rec |-> NoRecord, staged |-> <<>>,
     outcome |-> "none", last |-> NoRecord, rolled_back |-> <<>>]

\* the worker pool before the settings are loaded: the CLASSIFY_CONCURRENCY
\* value of the environment (Unset when there is none) and a polled batch
Unset == -2
NewPool(env, n) ==
    [env |-> env, pc |-> "start", classify_concurrency |-> 0,
     queued |-> 1..n, classifying |-> {}, done |-> {}]

\* the mixed batch of test_resilience_under_error_conditions: normal and
\* problematic emails, all pending, and the state of the run at its start
NormalEmails(n) == {<<"normal", i>> : i \in 1..n}
ProblematicEmails(p) == {<<"problem", i>> : i \in 1..p}
NoResults == [processed |-> 0, failed |-> 0, shedded |-> 0, circuit_breaker_trips |-> 0]
NewRun(n, p) ==
    [normal |-> n, problem |-> p, pc |-> "problematic", i |-> 1,
     status |-> [e \in NormalEmails(n) \cup ProblematicEmails(p) |-> PENDING],
     classifications |-> {},
     failure_count |-> 0, circuit_open |-> FALSE, concurrent_failures |-> 0,
     results |-> NoResults]

(***************************************************************************)
(* Idempotency Key Authority (spec 4.1).  already_processed is the indexed *)
(* lookup of the message's ClassificationResult                            *)
(* (test_idempotency.py create_email_with_classification) compared by key. *)
(***************************************************************************)
already_processed_always(tbl, m, v) == TRUE
already_processed(tbl, m, v) ==
    \E i \in RowsForEmail(tbl, m) :
        generate_idempotency_key(m, tbl[i].schema_version) = generate_idempotency_key(m, v)

(***************************************************************************)
(* Retry Policy Engine (spec 4.2); conftest.py error_scenarios gives       *)
(* should_retry of each error.                                             *)
(***************************************************************************)
ClassifierErrors == {"ollama_timeout", "gmail_rate_limit", "qdrant_not_found", "database_constraint"}
should_retry_always(err) == TRUE
should_retry(err) == err \in {"ollama_timeout", "gmail_rate_limit", "imap_connection_failed"}
classify_error(err) == IF should_retry(err) THEN "transient" ELSE "permanent"

\* the result contract of the current schema version
ValidOutputAny(out, v) == TRUE
ValidOutput(out, v) ==
    /\ out.confidence >= ConfidenceMin /\ out.confidence <= ConfidenceMax
    /\ out.secondary <= MaxSecondary
    /\ out.action_items <= MaxActionItems
    /\ out.rationale <= MaxRationale
    /\ out.schema_version = v

(***************************************************************************)
(* Circuit Breaker (spec 4.3).  The closed and open states are those of    *)
(* test_error_handling.py mock_classify_with_circuit_breaker:              *)
(*     if circuit_open: raise Exception("Circuit breaker is open ...")     *)
(*     failure_count += 1                                                  *)
(*     if failure_count >= 2: circuit_open = True                          *)
(* The half-open state and the clock follow the spec.                      *)
(***************************************************************************)
CircuitOpenNever(b) == FALSE
CircuitOpen(b) == b.state = "open"

TripsBreakerWhenExceeded(failure_count) == failure_count > CircuitBreakerThreshold
TripsBreaker(failure_count) == failure_count >= CircuitBreakerThreshold

BreakerAdmitsEveryProbe(b) == ~CircuitOpen(b)
BreakerAdmits(b) == ~CircuitOpen(b) /\ (b.state = "half_open" => b.probe = 0)

BreakerEnter(b, w) == IF b.state = "half_open" THEN [b EXCEPT !.probe = w] ELSE b

BreakerFailure(b, w) ==
    CASE b.state = "closed" ->
            IF TripsBreaker(b.failures + 1)
            THEN [state |-> "open", failures |-> 0, probe |-> 0]
            ELSE [b EXCEPT !.failures = b.failures + 1]
      [] b.state = "half_open" /\ b.probe = w ->
            [state |-> "open", failures |-> 0, probe |-> 0]
      [] OTHER -> b

BreakerSuccess(b, w) ==
    IF b.state = "half_open" /\ b.probe = w THEN ClosedBreaker ELSE b

\* a permanent error says nothing about the dependency's health
BreakerPermanent(b, w) ==
    IF b.state = "half_open" /\ b.probe = w THEN [b EXCEPT !.probe = 0] ELSE b

(***************************************************************************)
(* Quarantine Manager (spec 4.4); the tally is kept per message            *)
(* (test_error_handling.py failure_counts).                                *)
(***************************************************************************)
record_failure_twice(t, err) == [count |-> t.count + 2, last_error |-> err]
record_failure(t, err) == [count |-> t.count + 1, last_error |-> err]
should_quarantine_late(t) == t.count > QuarantineThreshold
should_quarantine(t) == t.count >= QuarantineThreshold

(***************************************************************************)
(* Workflow Orchestrator (spec 4.6).                                       *)
(***************************************************************************)
Init ==
    /\ status = [m \in Messages |-> DefaultStatus]
    /\ table = <<>>
    /\ tally = [m \in Messages |-> NoTally]
    /\ schemaVersion = DefaultSchemaVersion
    /\ phase = "idle"
    /\ deliveries = [m \in Messages |-> 0]
    /\ claimed = {}
    /\ worker = [w \in Workers |-> IdleWorker]
    /\ breaker = ClosedBreaker
    /\ calls = [m \in Messages |-> NoCalls]
    /\ cyc = NewCycle
    /\ keyIn = <<>>
    /\ keyOut = <<>>
    /\ feedback = NoFeedback
    /\ contextStore = <<>>
    /\ loop = IdleLoop
    /\ batchRun = NewRun(0, 0)
    /\ pool = NewPool(Unset, 0)
    /\ invoked = {}
    /\ healthy = FALSE

\* a polling cycle starts: the poller returns a batch; quarantined messages
\* are excluded from pickup
Poll(polled, most) ==
    /\ phase = "idle"
    /\ phase' = "running"
    /\ \E batch \in [polled -> 0..most] :
          deliveries' = [m \in Messages |->
                            IF m \in polled /\ status[m] # QUARANTINED
                            THEN batch[m] ELSE 0]
    /\ claimed' = {}
    /\ calls' = [m \in Messages |-> NoCalls]
    /\ cyc' = NewCycle
    /\ UNCHANGED <<status, table, tally, schemaVersion, worker, breaker>>

StartCycle == Poll(Polled, MaxDeliveries)

\* the enqueue of test_idempotency.py (mock_enqueue): a key already enqueued
\* in this cycle is refused
EnqueuedNever(keys, key) == FALSE
Enqueued(keys, key) == key \in keys

\* steps 1 and 2: the idempotency check, then pending -> classifying
Dispatch(w, m) ==
    /\ phase = "running"
    /\ worker[w].pc = "idle"
    /\ deliveries[m] > 0
    /\ deliveries' = [deliveries EXCEPT ![m] = @ - 1]
    /\ LET key == generate_idempotency_key(m, schemaVersion)
       IN  IF already_processed(table, m, schemaVersion) \/ Enqueued(claimed, key)
           THEN /\ cyc' = [cyc EXCEPT !.scanned = @ + 1, !.skipped = @ + 1]
                /\ UNCHANGED <<status, claimed, worker>>
           ELSE /\ claimed' = claimed \cup {key}
                /\ status' = [status EXCEPT ![m] = CLASSIFYING]
                /\ worker' = [worker EXCEPT ![w] = [IdleWorker EXCEPT !.pc = "retrieve", !.msg = m]]
                /\ cyc' = [cyc EXCEPT !.scanned = @ + 1]
    /\ UNCHANGED <<table, tally, schemaVersion, phase, breaker, calls>>

\* step 6: record_failure, then failed or quarantined
Abort(w, err) ==
    LET m == worker[w].msg
        t == record_failure(tally[m], err)
    IN  /\ tally' = [tally EXCEPT ![m] = t]
        /\ status' = [status EXCEPT ![m] = IF should_quarantine(t) THEN QUARANTINED ELSE FAILED]
        /\ cyc' = [cyc EXCEPT !.failed = @ + 1]
        /\ worker' = [worker EXCEPT ![w] = IdleWorker]

\* step 3: retrieve context through the retriever's breaker.  The call
\* returns chunks, raises a transient error (test_error_handling.py
\* mock_retrieve_context) or is failed fast by the breaker; a failed
\* retrieval falls back to empty context unless the attempt budget is used up
RetrievalErrors == {"none", "rag_degraded", "fast_fail"}
RetrievalAbortsOnError(rerr, attempts) == rerr # "none"
RetrievalAborts(rerr, attempts) == rerr # "none" /\ attempts >= MaxRetryAttempts

Retrieve(w) ==
    /\ worker[w].pc = "retrieve"
    /\ \E rerr \in RetrievalErrors :
          IF RetrievalAborts(rerr, worker[w].attempts)
          THEN /\ Abort(w, rerr)
               /\ UNCHANGED calls
          ELSE /\ worker' = [worker EXCEPT ![w].pc = "classify",
                                           ![w].ctx = IF rerr = "none" THEN "chunks"
                                                      ELSE "empty",
                                           ![w].rerr = rerr]
               /\ calls' = [calls EXCEPT ![worker[w].msg].retrieve = @ + 1]
               /\ UNCHANGED <<status, tally, cyc>>
    /\ UNCHANGED <<table, schemaVersion, phase, deliveries, claimed, breaker>>

\* step 4, the call: through the breaker; an open breaker fails fast
ClassifyStart(w) ==
    /\ worker[w].pc = "classify"
    /\ IF BreakerAdmits(breaker)
       THEN /\ breaker' = BreakerEnter(breaker, w)
            /\ worker' = [worker EXCEPT ![w].pc = "calling", ![w].attempts = @ + 1]
            /\ calls' = [calls EXCEPT ![worker[w].msg].classify = @ + 1]
            /\ UNCHANGED <<status, tally, cyc>>
       ELSE /\ Abort(w, "fast_fail")
            /\ UNCHANGED <<breaker, calls>>
    /\ UNCHANGED <<table, schemaVersion, phase, deliveries, claimed>>

\* step 4, the classifier answers with an output
ClassifyOutput(w, out) ==
    /\ worker[w].pc = "calling"
    /\ IF ValidOutput(out, schemaVersion)
       THEN /\ breaker' = BreakerSuccess(breaker, w)
            /\ worker' = [worker EXCEPT ![w].pc = "persist", ![w].out = out,
                                             ![w].err = "none"]
            /\ UNCHANGED <<status, tally, cyc>>
       ELSE /\ breaker' = BreakerPermanent(breaker, w)
            /\ Abort(w, "contract_violation")
    /\ UNCHANGED <<table, schemaVersion, phase, deliveries, claimed, calls>>

\* step 4, the classifier raises: transient errors retry within the budget
ClassifyRaises(w, err) ==
    /\ worker[w].pc = "calling"
    /\ IF classify_error(err) = "transient"
       THEN /\ breaker' = BreakerFailure(breaker, w)
            /\ IF worker[w].attempts < MaxRetryAttempts
               THEN /\ worker' = [worker EXCEPT ![w].pc = "classify", ![w].err = err]
                    /\ calls' = [calls EXCEPT ![worker[w].msg].retries = @ + 1]
                    /\ UNCHANGED <<status, tally, cyc>>
               ELSE /\ Abort(w, err)
                    /\ UNCHANGED calls
       ELSE /\ breaker' = BreakerPermanent(breaker, w)
            /\ Abort(w, err)
            /\ UNCHANGED calls
    /\ UNCHANGED <<table, schemaVersion, phase, deliveries, claimed>>

\* step 5: one transaction inserts the result and sets the status; a
\* constraint violation is a permanent error
Persist(w) ==
    /\ worker[w].pc = "persist"
    /\ LET m == worker[w].msg
           row == Row(m, worker[w].out)
       IN  IF InsertAllowed(table, row)
           THEN /\ table' = Insert(table, row)
                /\ status' = [status EXCEPT ![m] = CLASSIFIED]
                /\ tally' = [tally EXCEPT ![m] = NoTally]
                /\ cyc' = [cyc EXCEPT !.classified = @ + 1]
                /\ worker' = [worker EXCEPT ![w] = IdleWorker]
           ELSE /\ Abort(w, "integrity_error")
                /\ UNCHANGED table
    /\ UNCHANGED <<schemaVersion, phase, deliveries, claimed, breaker, calls>>

EndCycleEarly ==
    /\ phase = "running"
    /\ phase' = "idle"
    /\ claimed' = {}
    /\ calls' = [m \in Messages |-> NoCalls]
    /\ cyc' = NewCycle
    /\ UNCHANGED <<status, table, tally, schemaVersion, deliveries, worker, breaker>>
EndCycle ==
    /\ phase = "running"
    /\ \A m \in Messages : deliveries[m] = 0
    /\ \A w \in Workers : worker[w].pc = "idle"
    /\ phase' = "idle"
    /\ claimed' = {}
    /\ calls' = [m \in Messages |-> NoCalls]
    /\ cyc' = NewCycle
    /\ UNCHANGED <<status, table, tally, schemaVersion, deliveries, worker, breaker>>

\* the breaker's clock: old failures leave the window, the cooldown elapses
WindowSlides ==
    /\ breaker.state = "closed" /\ breaker.failures > 0
    /\ breaker' = [breaker EXCEPT !.failures = @ - 1]
    /\ UNCHANGED <<status, table, tally, schemaVersion, phase, deliveries, claimed,
                   worker, calls, cyc>>

CooldownElapses ==
    /\ breaker.state = "open"
    /\ breaker' = [state |-> "half_open", failures |-> 0, probe |-> 0]
    /\ UNCHANGED <<status, table, tally, schemaVersion, phase, deliveries, claimed,
                   worker, calls, cyc>>

\* the process stops and starts again, under the same or the next schema
\* version: the database survives, the memory of the process does not
Restart(v) ==
    /\ v = schemaVersion \/ (schemaVersion = V2 /\ v = V3)
    /\ schemaVersion' = v
    /\ phase' = "idle"
    /\ deliveries' = [m \in Messages |-> 0]
    /\ claimed' = {}
    /\ worker' = [w \in Workers |-> IdleWorker]
    /\ breaker' = ClosedBreaker
    /\ calls' = [m \in Messages |-> NoCalls]
    /\ cyc' = NewCycle
    /\ UNCHANGED <<status, table, tally>>

\* Quarantine Manager release (test_error_handling.py release_from_quarantine);
\* attaching the manual classification is one transaction with the status
Release(m, manual_review) ==
    /\ status[m] = QUARANTINED
    /\ manual_review => InsertAllowed(table, Row(m, ManualOutput(schemaVersion)))
    /\ tally' = [tally EXCEPT ![m] = NoTally]
    /\ IF manual_review
       THEN /\ status' = [status EXCEPT ![m] = CLASSIFIED]
            /\ table' = Insert(table, Row(m, ManualOutput(schemaVersion)))
       ELSE /\ status' = [status EXCEPT ![m] = PENDING]
            /\ UNCHANGED table
    /\ UNCHANGED <<schemaVersion, phase, deliveries, claimed, worker, breaker,
                   calls, cyc>>

Next ==
    \/ StartCycle /\ UNCHANGED <<kvars, fvars, bvars, pvars, hvars, evars>>
    \/ \E w \in Workers, m \in Messages : Dispatch(w, m) /\ UNCHANGED <<kvars, fvars, bvars, pvars, hvars, evars>>
    \/ \E w \in Workers : Retrieve(w) /\ UNCHANGED <<kvars, fvars, bvars, pvars, hvars, evars>>
    \/ \E w \in Workers : ClassifyStart(w) /\ UNCHANGED <<kvars, fvars, bvars, pvars, hvars, evars>>
    \/ \E w \in Workers, out \in ClassifierOutputs : ClassifyOutput(w, out) /\ UNCHANGED <<kvars, fvars, bvars, pvars, hvars, evars>>
    \/ \E w \in Workers, err \in ClassifierErrors : ClassifyRaises(w, err) /\ UNCHANGED <<kvars, fvars, bvars, pvars, hvars, evars>>
    \/ \E w \in Workers : Persist(w) /\ UNCHANGED <<kvars, fvars, bvars, pvars, hvars, evars>>
    \/ EndCycle /\ UNCHANGED <<kvars, fvars, bvars, pvars, hvars, evars>>
    \/ WindowSlides /\ UNCHANGED <<kvars, fvars, bvars, pvars, hvars, evars>>
    \/ CooldownElapses /\ UNCHANGED <<kvars, fvars, bvars, pvars, hvars, evars>>
    \/ \E v \in Versions : Restart(v) /\ UNCHANGED <<kvars, fvars, bvars, pvars, hvars, evars>>
    \/ \E m \in Messages, manual_review \in BOOLEAN : Release(m, manual_review) /\ UNCHANGED <<kvars, fvars, bvars, pvars, hvars, evars>>

Spec == Init /\ [][Next]_vars

(***************************************************************************)
(* One deployment and its upgrade: the process runs under v2, is stopped   *)
(* once and started again under v3.                                        *)
(***************************************************************************)
Upgrade == schemaVersion = V2 /\ Restart(V3)

UpgradeNext ==
    \/ StartCycle /\ UNCHANGED <<kvars, fvars, bvars, pvars, hvars, evars>>
    \/ \E w \in Workers, m \in Messages : Dispatch(w, m) /\ UNCHANGED <<kvars, fvars, bvars, pvars, hvars, evars>>
    \/ \E w \in Workers : Retrieve(w) /\ UNCHANGED <<kvars, fvars, bvars, pvars, hvars, evars>>
    \/ \E w \in Workers : ClassifyStart(w) /\ UNCHANGED <<kvars, fvars, bvars, pvars, hvars, evars>>
    \/ \E w \in Workers, out \in ClassifierOutputs : ClassifyOutput(w, out) /\ UNCHANGED <<kvars, fvars, bvars, pvars, hvars, evars>>
    \/ \E w \in Workers, err \in ClassifierErrors : ClassifyRaises(w, err) /\ UNCHANGED <<kvars, fvars, bvars, pvars, hvars, evars>>
    \/ \E w \in Workers : Persist(w) /\ UNCHANGED <<kvars, fvars, bvars, pvars, hvars, evars>>
    \/ EndCycle /\ UNCHANGED <<kvars, fvars, bvars, pvars, hvars, evars>>
    \/ WindowSlides /\ UNCHANGED <<kvars, fvars, bvars, pvars, hvars, evars>>
    \/ CooldownElapses /\ UNCHANGED <<kvars, fvars, bvars, pvars, hvars, evars>>
    \/ Upgrade /\ UNCHANGED <<kvars, fvars, bvars, pvars, hvars, evars>>
    \/ \E m \in Messages, manual_review \in BOOLEAN : Release(m, manual_review) /\ UNCHANGED <<kvars, fvars, bvars, pvars, hvars, evars>>

SpecUpgrade == Init /\ [][UpgradeNext]_vars

(***************************************************************************)
(* The two messages together, through the cycles of one process: each      *)
(* cycle's batch holds each message at most once, the workers of the pool  *)
(* work on them side by side and share the classifier's breaker.  The     *)
(* classifier answers within the contract, times out or raises a permanent *)
(* error.                                                                  *)
(***************************************************************************)
TwoOutputs == {Output(85, 1, 1, 40, DefaultSchemaVersion)}
TwoErrors == {"ollama_timeout", "qdrant_not_found"}

TwoNext ==
    \/ Poll(Messages, 1) /\ UNCHANGED <<kvars, fvars, bvars, pvars, hvars, evars>>
    \/ \E w \in Workers, m \in Messages : Dispatch(w, m) /\ UNCHANGED <<kvars, fvars, bvars, pvars, hvars, evars>>
    \/ \E w \in Workers : Retrieve(w) /\ UNCHANGED <<kvars, fvars, bvars, pvars, hvars, evars>>
    \/ \E w \in Workers : ClassifyStart(w) /\ UNCHANGED <<kvars, fvars, bvars, pvars, hvars, evars>>
    \/ \E w \in Workers, out \in TwoOutputs : ClassifyOutput(w, out) /\ UNCHANGED <<kvars, fvars, bvars, pvars, hvars, evars>>
    \/ \E w \in Workers, err \in TwoErrors : ClassifyRaises(w, err) /\ UNCHANGED <<kvars, fvars, bvars, pvars, hvars, evars>>
    \/ \E w \in Workers : Persist(w) /\ UNCHANGED <<kvars, fvars, bvars, pvars, hvars, evars>>
    \/ EndCycle /\ UNCHANGED <<kvars, fvars, bvars, pvars, hvars, evars>>
    \/ WindowSlides /\ UNCHANGED <<kvars, fvars, bvars, pvars, hvars, evars>>
    \/ CooldownElapses /\ UNCHANGED <<kvars, fvars, bvars, pvars, hvars, evars>>

SpecTwo == Init /\ [][TwoNext]_vars

(***************************************************************************)
(* The two messages with the history of the classifier's invocations: a    *)
(* call that the breaker admits is logged for its message, a call failed   *)
(* fast is not.                                                            *)
(***************************************************************************)
ClassifyLogged(w) ==
    /\ ClassifyStart(w)
    /\ invoked' = IF BreakerAdmits(breaker)
                  THEN invoked \cup {worker[w].msg} ELSE invoked

LogNext ==
    \/ Poll(Messages, 1) /\ UNCHANGED <<kvars, fvars, bvars, pvars, hvars, evars>>
    \/ \E w \in Workers, m \in Messages : Dispatch(w, m) /\ UNCHANGED <<kvars, fvars, bvars, pvars, hvars, evars>>
    \/ \E w \in Workers : Retrieve(w) /\ UNCHANGED <<kvars, fvars, bvars, pvars, hvars, evars>>
    \/ \E w \in Workers : ClassifyLogged(w) /\ UNCHANGED <<kvars, fvars, bvars, pvars, evars>>
    \/ \E w \in Workers, out \in TwoOutputs : ClassifyOutput(w, out) /\ UNCHANGED <<kvars, fvars, bvars, pvars, hvars, evars>>
    \/ \E w \in Workers, err \in TwoErrors : ClassifyRaises(w, err) /\ UNCHANGED <<kvars, fvars, bvars, pvars, hvars, evars>>
    \/ \E w \in Workers : Persist(w) /\ UNCHANGED <<kvars, fvars, bvars, pvars, hvars, evars>>
    \/ EndCycle /\ UNCHANGED <<kvars, fvars, bvars, pvars, hvars, evars>>
    \/ WindowSlides /\ UNCHANGED <<kvars, fvars, bvars, pvars, hvars, evars>>
    \/ CooldownElapses /\ UNCHANGED <<kvars, fvars, bvars, pvars, hvars, evars>>

SpecLog == Init /\ [][LogNext]_vars

(***************************************************************************)
(* The deployment with an outage that ends: until the classifier has       *)
(* recovered it answers anything or raises, afterwards it answers within   *)
(* the contract of the running schema version.  Polling cycles keep        *)
(* running and keep presenting the message, the workers keep taking their  *)
(* steps, calls return and the breaker's cooldown elapses.                 *)
(***************************************************************************)
LiveOutputs == {Output(85, 1, 1, 40, V2), Output(85, 1, 1, 40, V3)}

Recover ==
    /\ ~healthy
    /\ healthy' = TRUE
    /\ UNCHANGED <<wvars, kvars, fvars, bvars, pvars, hvars>>

Answer(w) ==
    \E out \in LiveOutputs :
        /\ healthy => ValidOutput(out, schemaVersion)
        /\ ClassifyOutput(w, out)

Raise(w) == ~healthy /\ \E err \in TwoErrors : ClassifyRaises(w, err)

\* a polling cycle that presents every message it may present
PickUp ==
    /\ Poll(Polled, 1)
    /\ \A m \in Polled : status[m] # QUARANTINED => deliveries'[m] = 1

Others == <<kvars, fvars, bvars, pvars, hvars, evars>>

LiveNext ==
    \/ Poll(Polled, 1) /\ UNCHANGED Others
    \/ \E w \in Workers, m \in Messages : Dispatch(w, m) /\ UNCHANGED Others
    \/ \E w \in Workers : Retrieve(w) /\ UNCHANGED Others
    \/ \E w \in Workers : ClassifyStart(w) /\ UNCHANGED Others
    \/ \E w \in Workers : Answer(w) /\ UNCHANGED Others
    \/ \E w \in Workers : Raise(w) /\ UNCHANGED Others
    \/ \E w \in Workers : Persist(w) /\ UNCHANGED Others
    \/ EndCycle /\ UNCHANGED Others
    \/ WindowSlides /\ UNCHANGED Others
    \/ CooldownElapses /\ UNCHANGED Others
    \/ Upgrade /\ UNCHANGED Others
    \/ \E m \in Messages, manual_review \in BOOLEAN : Release(m, manual_review) /\ UNCHANGED Others
    \/ Recover

Fairness ==
    /\ SF_vars(PickUp /\ UNCHANGED Others)
    /\ WF_vars(\E w \in Workers, m \in Messages : Dispatch(w, m) /\ UNCHANGED Others)
    /\ WF_vars(\E w \in Workers : Retrieve(w) /\ UNCHANGED Others)
    /\ WF_vars(\E w \in Workers : ClassifyStart(w) /\ UNCHANGED Others)
    /\ WF_vars(\E w \in Workers : Answer(w) /\ UNCHANGED Others)
    /\ WF_vars(\E w \in Workers : Persist(w) /\ UNCHANGED Others)
    /\ WF_vars(EndCycle /\ UNCHANGED Others)
    /\ WF_vars(CooldownElapses /\ UNCHANGED Others)

SpecLive == Init /\ [][LiveNext]_vars /\ Fairness

(***************************************************************************)
(* The key function on its own: a (message_id, schema_version) pair is     *)
(* given, then a second pair, and generate_idempotency_key is applied to   *)
(* both.  The workflow does not move.                                      *)
(***************************************************************************)
Pairs == Strings \X Strings

KeyInit ==
    /\ status = [m \in Messages |-> DefaultStatus]
    /\ table = <<>>
    /\ tally = [m \in Messages |-> NoTally]
    /\ schemaVersion = DefaultSchemaVersion
    /\ phase = "idle"
    /\ deliveries = [m \in Messages |-> 0]
    /\ claimed = {}
    /\ worker = [w \in Workers |-> IdleWorker]
    /\ breaker = ClosedBreaker
    /\ calls = [m \in Messages |-> NoCalls]
    /\ cyc = NewCycle
    /\ \E p \in Pairs : keyIn = <<p>>
    /\ keyOut = <<>>
    /\ feedback = NoFeedback
    /\ contextStore = <<>>
    /\ loop = IdleLoop
    /\ batchRun = NewRun(0, 0)
    /\ pool = NewPool(Unset, 0)
    /\ invoked = {}
    /\ healthy = FALSE

ComputeKeys(q) ==
    /\ Len(keyIn) = 1
    /\ keyIn' = Append(keyIn, q)
    /\ keyOut' = <<generate_idempotency_key(keyIn[1][1], keyIn[1][2]),
                   generate_idempotency_key(q[1], q[2])>>
    /\ UNCHANGED <<wvars, fvars, bvars, pvars, hvars, evars>>

KeyNext == \E q \in Pairs : ComputeKeys(q)

SpecKey == KeyInit /\ [][KeyNext]_vars

(***************************************************************************)
(* Feedback Incorporation Loop (spec 4.5).  A periodically triggered       *)
(* process of its own: it drains the pending UserFeedback rows and folds   *)
(* each into the context store.  The context write and the flag update of  *)
(* one record are committed together: the entry is staged by the write and *)
(* becomes part of the store with the flag update; a crash in between      *)
(* rolls the staged entry back.                                            *)
(***************************************************************************)
\* idx_feedback_pending: the rows whose incorporated column is false
get_pending_feedback(fb) == {f \in DOMAIN fb : fb[f].incorporated = FALSE}

\* re-processing a record that is already incorporated is skipped
AlreadyIncorporatedNever(fb, f) == FALSE
AlreadyIncorporated(fb, f) == fb[f].incorporated

\* the flag after processing: set after a successful update of the
\* knowledge base, left as it was when the update raised
IncorporatedAfterAlways(flag, write_ok) == TRUE
IncorporatedAfter(flag, write_ok) == IF write_ok THEN TRUE ELSE flag

\* the context entry derived from a correction, and the store's entries
\* that stem from a record
ContextEntry(f) == [source |-> f]
EntriesOf(store, f) == {i \in 1..Len(store) : store[i].source = f}

Committed(store, staged) == store \o staged
RolledBack(store, staged) == store

\* a user submits a correction
Submit(f) ==
    /\ f \notin DOMAIN feedback
    /\ feedback' = [g \in DOMAIN feedback \cup {f} |->
                        IF g = f THEN NewFeedback ELSE feedback[g]]
    /\ UNCHANGED <<contextStore, loop>>

\* pending(): the loop drains the records that are not yet incorporated
process_pending_feedback ==
    /\ loop.pc \in {"idle", "drained"}
    /\ loop' = [loop EXCEPT !.pc = "drained",
                            !.queue = get_pending_feedback(feedback)]
    /\ UNCHANGED <<feedback, contextStore>>

\* incorporate(record) is called, for a drained record or for any other
\* record of the table
process_single_feedback(f) ==
    /\ loop.pc \in {"idle", "drained"}
    /\ f \in DOMAIN feedback
    /\ loop' = [loop EXCEPT !.pc = "check", !.rec = f, !.queue = @ \ {f},
                            !.outcome = "none"]
    /\ UNCHANGED <<feedback, contextStore>>

\* the flag is looked at before anything is written
CheckIncorporated ==
    /\ loop.pc = "check"
    /\ IF AlreadyIncorporated(feedback, loop.rec)
       THEN loop' = [loop EXCEPT !.pc = "idle", !.outcome = "skipped"]
       ELSE loop' = [loop EXCEPT !.pc = "write"]
    /\ UNCHANGED <<feedback, contextStore>>

\* the context-store write: it stages the entry, or it fails and
\* incorporate returns with the record as it was
update_rag_knowledge_base(write_ok) ==
    /\ loop.pc = "write"
    /\ IF write_ok
       THEN /\ loop' = [loop EXCEPT !.pc = "flag",
                                    !.staged = <<ContextEntry(loop.rec)>>]
            /\ UNCHANGED feedback
       ELSE /\ loop' = [loop EXCEPT !.pc = "idle", !.outcome = "failed"]
            /\ feedback' = [feedback EXCEPT ![loop.rec].incorporated =
                                IncorporatedAfter(@, FALSE)]
    /\ UNCHANGED contextStore

\* the flag update, committed together with the staged entry
MarkIncorporated ==
    /\ loop.pc = "flag"
    /\ contextStore' = Committed(contextStore, loop.staged)
    /\ feedback' = [feedback EXCEPT ![loop.rec].incorporated =
                        IncorporatedAfter(@, TRUE)]
    /\ loop' = [loop EXCEPT !.pc = "idle", !.staged = <<>>,
                            !.outcome = "incorporated"]

\* the loop's process dies: what it held in memory and what it had staged
\* is lost, the table and the committed entries stay
LoopCrash ==
    /\ loop.pc # "idle"
    /\ contextStore' = RolledBack(contextStore, loop.staged)
    /\ loop' = [IdleLoop EXCEPT !.rolled_back = loop.staged]
    /\ UNCHANGED feedback

FeedbackNext ==
    \/ \E f \in FeedbackIds : Submit(f) /\ UNCHANGED <<wvars, kvars, bvars, pvars, hvars, evars>>
    \/ process_pending_feedback /\ UNCHANGED <<wvars, kvars, bvars, pvars, hvars, evars>>
    \/ \E f \in FeedbackIds : process_single_feedback(f) /\ UNCHANGED <<wvars, kvars, bvars, pvars, hvars, evars>>
    \/ CheckIncorporated /\ UNCHANGED <<wvars, kvars, bvars, pvars, hvars, evars>>
    \/ \E write_ok \in BOOLEAN : update_rag_knowledge_base(write_ok) /\ UNCHANGED <<wvars, kvars, bvars, pvars, hvars, evars>>
    \/ MarkIncorporated /\ UNCHANGED <<wvars, kvars, bvars, pvars, hvars, evars>>
    \/ LoopCrash /\ UNCHANGED <<wvars, kvars, bvars, pvars, hvars, evars>>

SpecFeedback == Init /\ [][FeedbackNext]_vars

(***************************************************************************)
(* The resilient batch processing of test_error_handling.py                *)
(* (test_resilience_under_error_conditions): the classifier behind its     *)
(* circuit breaker (mock_classify_with_circuit_breaker) and the            *)
(* orchestrator's run over a mixed batch (mock_process_with_resilience),   *)
(* the problematic emails first, then the normal ones.  One step is one    *)
(* turn of a loop.                                                         *)
(***************************************************************************)
\* "problem" in email.message_id
IsProblem(email) == email[1] = "problem"

\* the classifier call: the error raised ("none" when it returns a
\* classification) and the breaker's counters after the call
mock_classify_with_circuit_breaker(email, failure_count, circuit_open) ==
    IF circuit_open
    THEN [error |-> "circuit_breaker_open", failure_count |-> failure_count,
          circuit_open |-> circuit_open]
    ELSE IF IsProblem(email)
         THEN [error |-> "llm_service_failure", failure_count |-> failure_count + 1,
               circuit_open |-> TripsBreaker(failure_count + 1)]
         ELSE [error |-> "none", failure_count |-> failure_count,
               circuit_open |-> circuit_open]

\* for email in problematic_emails
ProblematicLoop ==
    /\ batchRun.pc = "problematic"
    /\ batchRun.i <= batchRun.problem
    /\ LET email == <<"problem", batchRun.i>>
           c == mock_classify_with_circuit_breaker(email, batchRun.failure_count,
                                                   batchRun.circuit_open)
           r == [batchRun EXCEPT !.i = @ + 1,
                                 !.failure_count = c.failure_count,
                                 !.circuit_open = c.circuit_open]
       IN  IF c.error = "none"
           THEN batchRun' = r
           ELSE IF batchRun.concurrent_failures + 1 >= MaxConcurrentFailures
                THEN batchRun' = [r EXCEPT !.concurrent_failures = @ + 1,
                                           !.results.shedded = @ + 1,
                                           !.status[email] = QUARANTINED]
                ELSE batchRun' = [r EXCEPT !.concurrent_failures = @ + 1,
                                           !.results.circuit_breaker_trips =
                                               IF c.error = "circuit_breaker_open"
                                               THEN @ + 1 ELSE @,
                                           !.status[email] = FAILED,
                                           !.results.failed = @ + 1]

ProblematicDone ==
    /\ batchRun.pc = "problematic"
    /\ batchRun.i > batchRun.problem
    /\ batchRun' = [batchRun EXCEPT !.pc = "normal", !.i = 1]

\* for email in normal_emails
NormalLoop ==
    /\ batchRun.pc = "normal"
    /\ batchRun.i <= batchRun.normal
    /\ LET email == <<"normal", batchRun.i>>
           c == mock_classify_with_circuit_breaker(email, batchRun.failure_count,
                                                   batchRun.circuit_open)
           r == [batchRun EXCEPT !.i = @ + 1]
       IN  IF IsProblem(email)
           THEN batchRun' = [r EXCEPT !.status[email] = FAILED,
                                      !.results.failed = @ + 1]
           ELSE IF c.error = "none"
                THEN batchRun' = [r EXCEPT !.failure_count = c.failure_count,
                                           !.circuit_open = c.circuit_open,
                                           !.classifications = @ \cup {email},
                                           !.status[email] = CLASSIFIED,
                                           !.results.processed = @ + 1]
                ELSE batchRun' = [r EXCEPT !.failure_count = c.failure_count,
                                           !.circuit_open = c.circuit_open,
                                           !.status[email] = FAILED,
                                           !.results.failed = @ + 1]

\* return results
NormalDone ==
    /\ batchRun.pc = "normal"
    /\ batchRun.i > batchRun.normal
    /\ batchRun' = [batchRun EXCEPT !.pc = "done"]

BatchInit ==
    /\ status = [m \in Messages |-> DefaultStatus]
    /\ table = <<>>
    /\ tally = [m \in Messages |-> NoTally]
    /\ schemaVersion = DefaultSchemaVersion
    /\ phase = "idle"
    /\ deliveries = [m \in Messages |-> 0]
    /\ claimed = {}
    /\ worker = [w \in Workers |-> IdleWorker]
    /\ breaker = ClosedBreaker
    /\ calls = [m \in Messages |-> NoCalls]
    /\ cyc = NewCycle
    /\ keyIn = <<>>
    /\ keyOut = <<>>
    /\ feedback = NoFeedback
    /\ contextStore = <<>>
    /\ loop = IdleLoop
    /\ \E n \in 0..MaxNormalEmails, p \in 0..MaxProblemEmails : batchRun = NewRun(n, p)
    /\ pool = NewPool(Unset, 0)
    /\ invoked = {}
    /\ healthy = FALSE

BatchNext ==
    \/ ProblematicLoop /\ UNCHANGED <<wvars, kvars, fvars, pvars, hvars, evars>>
    \/ ProblematicDone /\ UNCHANGED <<wvars, kvars, fvars, pvars, hvars, evars>>
    \/ NormalLoop /\ UNCHANGED <<wvars, kvars, fvars, pvars, hvars, evars>>
    \/ NormalDone /\ UNCHANGED <<wvars, kvars, fvars, pvars, hvars, evars>>

SpecBatch == BatchInit /\ [][BatchNext]_vars

(***************************************************************************)
(* The bounded worker pool (spec 5) under config.py PerformanceSettings:   *)
(*     classify_concurrency: int = Field(default=2, ..., ge=1)             *)
(* The settings are loaded from the environment, the pool gets as many     *)
(* workers as they say, and a message is taken off the batch only by a     *)
(* free worker.                                                            *)
(***************************************************************************)
\* Field(ge=1): the validation of the configured value
classify_concurrency_any(n) == TRUE
classify_concurrency_valid(n) == n >= 1

EnvValues == {Unset} \cup (-1..MaxConcurrencySetting)

\* PerformanceSettings(): the default when the environment has no value, a
\* ValueError when the value is refused
LoadSettings ==
    /\ pool.pc = "start"
    /\ LET n == IF pool.env = Unset THEN ClassifyConcurrency ELSE pool.env
       IN  IF classify_concurrency_valid(n)
           THEN pool' = [pool EXCEPT !.pc = "running", !.classify_concurrency = n]
           ELSE pool' = [pool EXCEPT !.pc = "ValueError"]

\* a free worker takes a queued message: pending -> classifying
PoolDispatch(m) ==
    /\ pool.pc = "running"
    /\ m \in pool.queued
    /\ Cardinality(pool.classifying) < pool.classify_concurrency
    /\ pool' = [pool EXCEPT !.queued = @ \ {m}, !.classifying = @ \cup {m}]

\* the worker is done with its message, classified or failed
PoolFinish(m) ==
    /\ pool.pc = "running"
    /\ m \in pool.classifying
    /\ pool' = [pool EXCEPT !.classifying = @ \ {m}, !.done = @ \cup {m}]

PoolInit ==
    /\ status = [m \in Messages |-> DefaultStatus]
    /\ table = <<>>
    /\ tally = [m \in Messages |-> NoTally]
    /\ schemaVersion = DefaultSchemaVersion
    /\ phase = "idle"
    /\ deliveries = [m \in Messages |-> 0]
    /\ claimed = {}
    /\ worker = [w \in Workers |-> IdleWorker]
    /\ breaker = ClosedBreaker
    /\ calls = [m \in Messages |-> NoCalls]
    /\ cyc = NewCycle
    /\ keyIn = <<>>
    /\ keyOut = <<>>
    /\ feedback = NoFeedback
    /\ contextStore = <<>>
    /\ loop = IdleLoop
    /\ batchRun = NewRun(0, 0)
    /\ \E env \in EnvValues, n \in 0..MaxBatch : pool = NewPool(env, n)
    /\ invoked = {}
    /\ healthy = FALSE

PoolNext ==
    \/ LoadSettings /\ UNCHANGED <<wvars, kvars, fvars, bvars, hvars, evars>>
    \/ \E m \in 1..MaxBatch : PoolDispatch(m) /\ UNCHANGED <<wvars, kvars, fvars, bvars, hvars, evars>>
    \/ \E m \in 1..MaxBatch : PoolFinish(m) /\ UNCHANGED <<wvars, kvars, fvars, bvars, hvars, evars>>

SpecPool == PoolInit /\ [][PoolNext]_vars

(***************************************************************************)
(* Observations used by the properties.                                    *)
(***************************************************************************)
\* the persisted ClassificationResults of one (message, schema version) pair
ResultsIn(tbl, m, v) ==
    {i \in DOMAIN tbl : tbl[i].email_id = m /\ tbl[i].schema_version = v}

\* the workers that hold message m
Holders(m) == {w \in Workers : worker[w].pc # "idle" /\ worker[w].msg = m}

\* a step of the running cycle that takes one delivery of m off the batch
Presented(m) ==
    /\ phase = "running" /\ phase' = "running"
    /\ deliveries'[m] = deliveries[m] - 1

\* C1: every (message identity, schema version) pair has at most one
\* persisted ClassificationResult, whatever cycles, retries and restarts
\* have presented the message again.
C1_AtMostOneResultPerPair ==
    \A m \in Messages, v \in Versions : Cardinality(ResultsIn(table, m, v)) <= 1

\* the process has restarted under v3, the message has its v3 result and a
\* later cycle has presented the message again
C1_Witness ==
    \E m \in Messages :
        /\ schemaVersion = V3
        /\ Cardinality(ResultsIn(table, m, V3)) = 1
        /\ cyc.skipped = 1 /\ cyc.classified = 0

\* C2: when the workers of the pool are handed the same key at the same
\* time, at most one of them proceeds with it, the pair never has more than
\* one result, and an attempt that ends classified leaves exactly one.
C2_SingleWinnerStep ==
    \A w \in Workers :
        LET m == worker[w].msg
        IN  (worker[w].pc = "persist" /\ worker'[w].pc = "idle" /\ phase' = "running"
                /\ status'[m] = CLASSIFIED)
                => Cardinality(ResultsIn(table', m, schemaVersion)) = 1

C3_SkipStep ==
    \A m \in Messages :
        (Presented(m) /\ ResultsIn(table, m, schemaVersion) # {})
            => /\ calls' = calls
               /\ status' = status
               /\ table' = table
               /\ worker' = worker
               /\ tally' = tally
               /\ cyc' = [cyc EXCEPT !.scanned = @ + 1, !.skipped = @ + 1]

C3_SkipIsFrame == [][C3_SkipStep]_vars

\* a cycle that only skipped: the classified message was presented twice
C3_Witness ==
    \E m \in Messages :
        /\ status[m] = CLASSIFIED
        /\ ResultsIn(table, m, schemaVersion) # {}
        /\ cyc.skipped = 2 /\ cyc.scanned = 2
        /\ cyc.classified = 0 /\ cyc.failed = 0
        /\ calls[m] = NoCalls

\* C4: once a pair has a persisted result, already_processed is true of it
\* in every later state and no step invokes the classifier for it.
C4_ProcessedStep ==
    \A m \in Messages :
        /\ \A v \in Versions :
              ResultsIn(table, m, v) # {}
                  => /\ ResultsIn(table', m, v) # {}
                     /\ already_processed(table, m, v)
                     /\ already_processed(table', m, v)
        /\ ResultsIn(table, m, schemaVersion) # {}
              => calls'[m].classify <= calls[m].classify

C4_ProcessedForever == [][C4_ProcessedStep]_vars

\* the pair succeeded in an earlier cycle; a later cycle runs and has
\* presented the message without calling the classifier
C4_Witness ==
    \E m \in Messages :
        /\ ResultsIn(table, m, schemaVersion) # {}
        /\ phase = "running"
        /\ cyc.scanned = 1 /\ cyc.skipped = 1
        /\ calls[m].classify = 0

\* C5: a message classified under v2 is processed again under v3: when the
\* worker persists the valid v3 classification, the v2 and the v3 result are
\* both in the table afterwards.
C5_ReprocessStep ==
    \A w \in Workers :
        LET m == worker[w].msg
        IN  (worker[w].pc = "persist" /\ worker'[w].pc = "idle" /\ phase' = "running"
                /\ schemaVersion = V3 /\ ResultsIn(table, m, V2) # {})
                => /\ ResultsIn(table', m, V2) # {}
                   /\ ResultsIn(table', m, V3) # {}

C5_BothResultsCoexist == [][C5_ReprocessStep]_vars

ReleaseStep(m) ==
    /\ status[m] = QUARANTINED
    /\ tally'[m] = NoTally
    /\ worker' = worker /\ cyc' = cyc /\ deliveries' = deliveries

\* no attempt on the message has failed in the cycle that is running
NotFailedInThisCycle == cyc.failed = 0

StatusChange(m, from, to) == status[m] = from /\ status'[m] = to

ListedTransition(m) ==
    \/ StatusChange(m, PENDING, CLASSIFYING)
    \/ StatusChange(m, CLASSIFYING, CLASSIFIED)
    \/ StatusChange(m, CLASSIFYING, FAILED)
    \/ StatusChange(m, CLASSIFYING, QUARANTINED)
    \/ StatusChange(m, FAILED, CLASSIFYING) /\ NotFailedInThisCycle
    \/ StatusChange(m, QUARANTINED, PENDING) /\ ReleaseStep(m)
    \/ StatusChange(m, QUARANTINED, CLASSIFIED) /\ ReleaseStep(m)

\* a classified message is picked up under a schema version it has no
\* result for
UpgradePickup(m) ==
    /\ StatusChange(m, CLASSIFIED, CLASSIFYING)
    /\ ResultsIn(table, m, schemaVersion) = {}

\* C7 as stated: every status change is one of the listed transitions.
C7_OnlyListedTransitions ==
    [][\A m \in Messages : status'[m] # status[m] => ListedTransition(m)]_vars

\* C7, amended: every status change is one of the listed transitions or the
\* pickup of a classified message under a schema version it has no result
\* for (classified to classifying).
C7_ListedOrUpgradePickup ==
    [][\A m \in Messages :
          status'[m] # status[m] => (ListedTransition(m) \/ UpgradePickup(m))]_vars

\* classified under v2 and now classifying again under v3
C7_Witness ==
    \E m \in Messages :
        /\ status[m] = CLASSIFYING
        /\ schemaVersion = V3
        /\ ResultsIn(table, m, V2) # {}

\* the place of a status in the workflow
Rank(st) == CASE st = PENDING -> 0 [] st = CLASSIFYING -> 1 [] OTHER -> 2

MovesBack(m) == Rank(status'[m]) < Rank(status[m])

\* C8 as stated, for the key of the first schema version (no other key has
\* existed while the process runs under v2): the status moves back only by
\* the quarantine release.
C8_MonotonicExceptRelease ==
    [][\A m \in Messages :
          (schemaVersion = V2 /\ schemaVersion' = V2 /\ MovesBack(m))
              => ReleaseStep(m)]_vars

\* C8, amended: within one key the status moves back only by the quarantine
\* release or by a later cycle picking up the failed message (failed to
\* classifying).  A classified message that has no result under the current
\* schema version starts another key.
C8_MonotonicExceptReleaseAndPickup ==
    [][\A m \in Messages :
          (MovesBack(m) /\ ~UpgradePickup(m))
              => \/ ReleaseStep(m)
                 \/ StatusChange(m, FAILED, CLASSIFYING) /\ NotFailedInThisCycle]_vars

\* under v2 the message has failed once and a later cycle is classifying it
C8_Witness ==
    \E m \in Messages :
        /\ schemaVersion = V2
        /\ status[m] = CLASSIFYING
        /\ tally[m].count = 1
        /\ table = <<>>

\* the errors that are permanent: conftest.py error_scenarios with
\* should_retry False, and a classifier output that breaks the contract
PermanentErrors == {"qdrant_not_found", "database_constraint", "contract_violation"}

\* the error that ended worker w's classifier call in this step, if any
CallErrorOf(w) ==
    IF worker[w].pc = "calling" /\ phase' = "running"
    THEN IF worker'[w].pc = "classify" THEN worker'[w].err
         ELSE IF worker'[w].pc = "idle" THEN tally'[worker[w].msg].last_error
         ELSE "none"
    ELSE "none"

\* C9: a permanent error of the classifier ends the attempt without a retry
\* (the classifier is called once when its first answer is the permanent
\* error, and not again for the message in the cycle), and it adds nothing
\* to the breaker's failure window: a closed breaker stays as it was.
C9_PermanentStep ==
    \A w \in Workers :
        LET m == worker[w].msg
        IN  CallErrorOf(w) \in PermanentErrors
                => /\ worker'[w] = IdleWorker
                   /\ status'[m] \in {FAILED, QUARANTINED}
                   /\ calls'[m].classify = calls[m].classify
                   /\ worker[w].attempts = 1 => calls'[m].classify = 1
                   /\ breaker'.failures = breaker.failures
                   /\ breaker.state = "closed" => breaker' = breaker
                   /\ breaker'.state = "open" => breaker.state = "open"

C9_NoCallAfterPermanent ==
    \A m \in Messages :
        (tally[m].last_error \in PermanentErrors /\ cyc.failed > 0
            /\ phase = "running" /\ phase' = "running")
            => calls'[m].classify = calls[m].classify

C9_PermanentNoRetryNoBreaker ==
    [][C9_PermanentStep /\ C9_NoCallAfterPermanent]_vars

\* the message has failed on permanent errors in three cycles, each with one
\* classifier call, and the breaker is closed with an empty window
C9_Witness ==
    \E m \in Messages :
        /\ status[m] = QUARANTINED
        /\ tally[m] = [count |-> 3, last_error |-> "database_constraint"]
        /\ calls[m].classify = 1
        /\ cyc.failed = 1
        /\ breaker = ClosedBreaker

\* C10, the bounds of the result contract: confidence in [0,1] (hundredths),
\* at most 3 secondary categories, at most 10 action items, a rationale of
\* at most 200 characters.
WithinContract(r) ==
    /\ r.confidence >= 0 /\ r.confidence <= 100
    /\ r.secondary <= 3
    /\ r.action_items <= 10
    /\ r.rationale <= 200

\* worker w's classifier call is answered in this step with an output that
\* breaks the contract of the current schema version
C10_ViolationStep ==
    \A w \in Workers :
        LET m == worker[w].msg
        IN  (worker[w].pc = "calling" /\ phase' = "running"
                /\ worker'[w].pc = "idle"
                /\ tally'[m].last_error = "contract_violation")
                => /\ status'[m] = IF tally'[m].count >= 3 THEN QUARANTINED ELSE FAILED
                   /\ table' = table
                   /\ calls'[m].classify = calls[m].classify
                   /\ cyc'.failed = cyc.failed + 1

\* every row enters the table within the contract and under the schema
\* version of the running process
C10_InsertStep ==
    \A i \in DOMAIN table' :
        i \notin DOMAIN table
            => WithinContract(table'[i]) /\ table'[i].schema_version = schemaVersion

\* a worker never holds an output outside the contract for persisting
C10_NoInvalidHeld ==
    \A w \in Workers :
        worker[w].pc = "persist"
            => WithinContract(worker[w].out) /\ worker[w].out.schema_version = schemaVersion

TransientErrors == {"ollama_timeout", "gmail_rate_limit", "imap_connection_failed"}

\* worker w's last allowed classifier call fails transiently in this step
C11_ExhaustedStep ==
    \A w \in Workers :
        LET m == worker[w].msg
        IN  (worker[w].pc = "calling" /\ worker[w].attempts = 3
                /\ CallErrorOf(w) \in TransientErrors)
                => /\ worker'[w] = IdleWorker
                   /\ status'[m] \in {FAILED, QUARANTINED}
                   /\ calls'[m].classify = 3

\* once the message has failed in the running cycle it gets no further
\* classifier call in that cycle and leaves failed only in a later cycle
C11_NoRetryInCycle ==
    \A m \in Messages :
        /\ (cyc.failed > 0 /\ phase = "running" /\ phase' = "running")
              => calls'[m].classify = calls[m].classify
        /\ StatusChange(m, FAILED, CLASSIFYING) => NotFailedInThisCycle

\* C11: the classifier is invoked at most 3 times for a message within one
\* cycle; the third transient failure ends the attempt in failed (or
\* quarantined), no further call is made for the message in that cycle, and
\* only a later cycle picks the message up again.
C11_RetryBudget ==
    /\ [](\A m \in Messages : calls[m].classify <= 3 /\ calls[m].retries <= 2)
    /\ [](\A w \in Workers : worker[w].attempts <= 3)
    /\ [][C11_ExhaustedStep /\ C11_NoRetryInCycle]_vars

\* three transient failures used up the budget of the cycle
C11_Witness ==
    \E m \in Messages :
        /\ status[m] = FAILED
        /\ tally[m] = [count |-> 1, last_error |-> "ollama_timeout"]
        /\ calls[m].classify = 3 /\ calls[m].retries = 2
        /\ cyc.failed = 1

\* C12: a message without a result whose classification failed twice
\* transiently and succeeded on the third attempt is persisted: status
\* classified, retry counter at least 2, exactly one ClassificationResult.
C12_ThirdAttemptStep ==
    \A w \in Workers :
        LET m == worker[w].msg
        IN  (worker[w].pc = "persist" /\ worker[w].attempts = 3
                /\ worker'[w].pc = "idle" /\ phase' = "running"
                /\ \A v \in Versions : ResultsIn(table, m, v) = {})
                => /\ status'[m] = CLASSIFIED
                   /\ calls'[m].retries >= 2
                   /\ calls'[m].classify = 3
                   /\ Cardinality({i \in DOMAIN table' : table'[i].email_id = m}) = 1
                   /\ cyc'.classified = cyc.classified + 1
                   /\ cyc'.failed = cyc.failed

C12_ThirdAttemptSucceeds == [][C12_ThirdAttemptStep]_vars

\* the cycle in which the third attempt succeeded
C12_Witness ==
    \E m \in Messages :
        /\ status[m] = CLASSIFIED
        /\ calls[m].classify = 3 /\ calls[m].retries = 2
        /\ cyc.classified = 1 /\ cyc.failed = 0
        /\ Len(table) = 1

\* a terminal failure of a processing attempt on m is counted in this step
TerminalFailure(m) ==
    /\ cyc'.failed = cyc.failed + 1
    /\ \E w \in Workers : worker[w].msg = m /\ worker'[w] = IdleWorker

\* C13, the escalation: the first and the second consecutive terminal
\* failure leave the message failed, the third leaves it quarantined.
C13_EscalationStep ==
    \A m \in Messages :
        TerminalFailure(m)
            => /\ tally[m].count < 3
               /\ status'[m] = IF tally[m].count = 2 THEN QUARANTINED ELSE FAILED

\* C13, the exclusion: while the message is quarantined no step makes a
\* dependency call for it, hands it to a worker or changes its status,
\* except the release.
C13_ExclusionStep ==
    \A m \in Messages :
        status[m] = QUARANTINED
            => /\ calls'[m].retrieve <= calls[m].retrieve
               /\ calls'[m].classify <= calls[m].classify
               /\ \A w \in Workers : worker'[w].msg # m
               /\ status'[m] # QUARANTINED => ReleaseStep(m)

\* C13: reaching the threshold of 3 consecutive terminal failures moves the
\* message to quarantined instead of failed, and a quarantined message is
\* left alone by every later cycle until it is released.
C13_QuarantineAtThreshold ==
    /\ [](\A m \in Messages :
             /\ status[m] = QUARANTINED => tally[m].count = 3
             /\ status[m] = FAILED => tally[m].count \in {1, 2})
    /\ [][C13_EscalationStep /\ C13_ExclusionStep]_vars

\* a cycle that started after the message was quarantined has ended its poll
\* without touching it
C13_Witness ==
    \E m \in Messages :
        /\ status[m] = QUARANTINED
        /\ tally[m].count = 3
        /\ phase = "running"
        /\ cyc = NewCycle /\ calls[m] = NoCalls
        /\ deliveries[m] = 0

\* C14: every step that takes a message out of quarantine is a release: it
\* resets the tally to 0 and leaves the message classified with the manual
\* classification attached, or pending with the table as it was; a message
\* is quarantined with 3 consecutive failures on its tally.
C14_ReleaseEffect ==
    \A m \in Messages :
        (status[m] = QUARANTINED /\ status'[m] # QUARANTINED)
            => /\ tally[m].count = 3
               /\ tally'[m].count = 0
               /\ \/ /\ status'[m] = CLASSIFIED
                     /\ table' = Append(table, Row(m, ManualOutput(schemaVersion)))
                  \/ /\ status'[m] = PENDING
                     /\ table' = table

TallyStep(m) ==
    /\ tally'[m].count \in {tally[m].count, tally[m].count + 1, 0}
    /\ tally'[m].count = tally[m].count + 1 <=> TerminalFailure(m)
    /\ calls'[m].retries > calls[m].retries => tally'[m] = tally[m]
    /\ (status'[m] = CLASSIFIED /\ status[m] # CLASSIFIED) => tally'[m].count = 0

\* C15 as stated: the tally moves by exactly one per terminal failure, not
\* per retry, is zero right after a classification, and decreases only by a
\* success (the message becomes classified).
C15_TallyDecreasesOnlyOnSuccess ==
    [][\A m \in Messages :
          /\ TallyStep(m)
          /\ tally'[m].count < tally[m].count => status'[m] = CLASSIFIED]_vars

\* C15, amended: the tally moves by exactly one per terminal failure, not
\* per retry, is zero right after a classification, and decreases only by a
\* success or by a quarantine release (which also resets it when the message
\* goes back to pending).
C15_TallyDecreasesOnSuccessOrRelease ==
    [][\A m \in Messages :
          /\ TallyStep(m)
          /\ tally'[m].count < tally[m].count
                => (status'[m] = CLASSIFIED \/ ReleaseStep(m))]_vars

\* two terminal failures, the second after two retries, then a success
\* would reset: here the tally stands at 2 after 3 classifier calls
C15_Witness ==
    \E m \in Messages :
        /\ tally[m].count = 2
        /\ calls[m].classify = 3 /\ calls[m].retries = 2
        /\ cyc.failed = 1
        /\ status[m] = FAILED

\* worker w's classifier call fails transiently in this step
TransientFailureOf(w) ==
    worker[w].pc = "calling" /\ CallErrorOf(w) \in TransientErrors

\* only the breaker moves in this step (its clock)
OnlyBreakerMoves ==
    /\ worker' = worker /\ status' = status /\ tally' = tally /\ table' = table
    /\ calls' = calls /\ cyc' = cyc /\ phase' = phase /\ deliveries' = deliveries

\* a new process starts: its breaker is a new, closed one
NewProcess ==
    /\ breaker' = ClosedBreaker
    /\ phase' = "idle"
    /\ \A w \in Workers : worker'[w] = IdleWorker

BreakerOpenToHalfOpen ==
    /\ breaker.state = "open" /\ breaker'.state = "half_open"
    /\ OnlyBreakerMoves

BreakerProbeSucceeds ==
    /\ breaker.state = "half_open" /\ breaker' = ClosedBreaker
    /\ \E w \in Workers :
          /\ breaker.probe = w
          /\ worker[w].pc = "calling" /\ worker'[w].pc = "persist"

BreakerProbeFails ==
    /\ breaker.state = "half_open" /\ breaker'.state = "open"
    /\ \E w \in Workers : breaker.probe = w /\ TransientFailureOf(w)

\* C16 as stated: the breaker's state changes only by closed -> open when
\* the transient failures in the window, the new one included, exceed the
\* threshold of 2; open -> half-open by the cooldown; half-open -> closed by
\* a successful probe, window reset; half-open -> open by a failed probe.
C16_OpensWhenExceeded ==
    [][breaker'.state # breaker.state
          => \/ /\ breaker.state = "closed" /\ breaker'.state = "open"
                /\ \E w \in Workers : TransientFailureOf(w)
                /\ breaker.failures + 1 > 2
             \/ BreakerOpenToHalfOpen
             \/ BreakerProbeSucceeds
             \/ BreakerProbeFails
             \/ NewProcess]_vars

\* C16, amended: closed -> open happens when the transient failures in the
\* window reach the threshold of 2 (on the second failure), and then it
\* always happens; the other transitions are as stated.
C16_OpensWhenReached ==
    [][/\ breaker'.state # breaker.state
             => \/ /\ breaker.state = "closed" /\ breaker'.state = "open"
                   /\ \E w \in Workers : TransientFailureOf(w)
                   /\ breaker.failures + 1 = 2
                \/ BreakerOpenToHalfOpen
                \/ BreakerProbeSucceeds
                \/ BreakerProbeFails
                \/ NewProcess
       /\ (breaker.state = "closed" /\ breaker.failures + 1 = 2
              /\ \E w \in Workers : TransientFailureOf(w))
             => breaker'.state = "open"]_vars

\* the second transient failure in the window has opened the breaker
C16_Witness ==
    \E m \in Messages :
        /\ breaker.state = "open"
        /\ calls[m].classify = 2 /\ calls[m].retries = 2
        /\ \E w \in Workers : worker[w].pc = "classify" /\ worker[w].err = "ollama_timeout"

\* C17: with the breaker open, the step that would call the classifier for
\* a message makes no call and consumes no retry attempt, fails the message
\* with the fast-fail error (failed, or quarantined at the third consecutive
\* failure) and leaves the breaker and its window as they were.
C17_FastFailStep ==
    \A w \in Workers :
        LET m == worker[w].msg
        IN  (breaker.state = "open" /\ worker[w].pc = "classify"
                /\ worker'[w] # worker[w] /\ phase' = "running")
                => /\ worker'[w] = IdleWorker
                   /\ calls' = calls
                   /\ worker[w].attempts = 0
                         => (calls'[m].classify = 0 /\ calls'[m].retries = 0)
                   /\ tally'[m].last_error = "fast_fail"
                   /\ "fast_fail" \notin ClassifierErrors \cup PermanentErrors \cup TransientErrors
                   /\ status'[m] = IF tally'[m].count >= 3 THEN QUARANTINED ELSE FAILED
                   /\ breaker' = breaker

Applied(f) == EntriesOf(contextStore, f) # {}

\* C18, one step: a record is never deleted, a new record has the flag
\* false, and a step that changes the flag of a record changes it from
\* false to true and is the loop's flag update for that record
C18_FlagStep ==
    \A f \in FeedbackIds :
        /\ f \in DOMAIN feedback => f \in DOMAIN feedback'
        /\ (f \notin DOMAIN feedback /\ f \in DOMAIN feedback') =>
               feedback'[f].incorporated = FALSE
        /\ (f \in DOMAIN feedback
                /\ feedback'[f].incorporated # feedback[f].incorporated) =>
               /\ feedback[f].incorporated = FALSE
               /\ feedback'[f].incorporated = TRUE
               /\ loop.pc = "flag"
               /\ loop.rec = f
               /\ loop'.outcome = "incorporated"

\* C18: the incorporated flag of a FeedbackRecord is false at creation and
\* changes at most once, from false to true, and only by the Feedback
\* Incorporation Loop; it never goes from true back to false
C18_FlagSetOnceByLoop == [][C18_FlagStep]_vars

C18_Witness ==
    /\ loop.outcome = "incorporated"
    /\ loop.rec \in DOMAIN feedback
    /\ feedback[loop.rec].incorporated
    /\ get_pending_feedback(feedback) # {}

\* C19, the two effects go together: a record has a committed context
\* entry exactly if its flag is true
C19_EntryIffFlag ==
    \A f \in FeedbackIds :
        Applied(f) <=> (f \in DOMAIN feedback /\ feedback[f].incorporated)

\* C19, the failed write: the step in which the context-store write fails
\* leaves the flag false, the store as it was and the record pending
C19_FailedStep ==
    (loop.pc = "write" /\ loop'.outcome = "failed") =>
        /\ feedback'[loop.rec].incorporated = FALSE
        /\ loop.rec \in get_pending_feedback(feedback')
        /\ contextStore' = contextStore

\* C19, the next drain: the drain that follows a failed incorporate returns
\* the record again
C19_Redrained ==
    (loop.pc = "drained" /\ loop.outcome = "failed") => loop.rec \in loop.queue

C20_SkipStep ==
    (loop.pc = "check" /\ feedback[loop.rec].incorporated /\ loop' # loop) =>
        /\ contextStore' = contextStore
        /\ feedback'[loop.rec] = feedback[loop.rec]
        /\ loop'.staged = <<>>
        /\ loop'.pc = "idle"
        /\ loop'.rec = loop.rec => loop'.outcome = "skipped"

C20_AtMostOneEntry ==
    \A f \in FeedbackIds : Cardinality(EntriesOf(contextStore, f)) <= 1

NewRows == {i \in DOMAIN table' : i \notin DOMAIN table}

\* an attempt on m ends in failure in this step
EndsInFailure(m) ==
    status[m] = CLASSIFYING /\ status'[m] \in {FAILED, QUARANTINED}

\* C21, one step: the rows of the table stay as they are; a step in which
\* an attempt ends failed or quarantined adds no row; a step that adds a row
\* adds one, the result of a classification within the contract of the
\* running schema version that a worker holds (or the classification a
\* release attaches), and leaves its message classified
C21_ResultStep ==
    /\ \A i \in DOMAIN table : i \in DOMAIN table' /\ table'[i] = table[i]
    /\ \A m \in Messages : EndsInFailure(m) => NewRows = {}
    /\ \A i \in NewRows :
          /\ NewRows = {i}
          /\ status'[table'[i].email_id] = CLASSIFIED
          /\ WithinContract(table'[i])
          /\ table'[i].schema_version = schemaVersion
          /\ \/ \E w \in Workers :
                   /\ worker[w].pc = "persist"
                   /\ worker'[w] = IdleWorker
                   /\ table'[i] = Row(worker[w].msg, worker[w].out)
             \/ ReleaseStep(table'[i].email_id)

\* C21: a ClassificationResult is created only by a successful
\* classification and never changes afterwards: an attempt that ends failed
\* or quarantined creates no result, and no later step changes a field of
\* a result that exists
C21_CreatedOnSuccessImmutable == [][C21_ResultStep]_vars

\* the message has its v2 result; its attempt under v3 ended failed at the
\* persist step and the table holds the v2 result as it was
C21_Witness ==
    \E m \in Messages :
        /\ status[m] = FAILED
        /\ tally[m].last_error = "integrity_error"
        /\ Len(table) = 1
        /\ table[1] \in {Row(m, out) : out \in ValidOutputs}
        /\ table[1].schema_version = V2

(***************************************************************************)
(* Mixed batches (C22).                                                    *)
(***************************************************************************)
\* C22: in a batch that mixes emails whose classification always fails with
\* emails whose classification would succeed, at the end of the run every
\* email whose classification would succeed is classified and every
\* always-failing email is failed or quarantined
C22_FailuresAreIsolated ==
    batchRun.pc = "done" =>
        /\ \A e \in NormalEmails(batchRun.normal) :
              batchRun.status[e] = CLASSIFIED
        /\ \A e \in ProblematicEmails(batchRun.problem) :
              batchRun.status[e] \in {FAILED, QUARANTINED}

(***************************************************************************)
(* Degraded retrieval (C23).                                               *)
(***************************************************************************)
\* C23, one step: the retrieval step of a worker within its attempt budget
\* goes on to the classify step, with empty context when the retrieval
\* failed (transient error or fast-fail), and fails nothing; and a worker
\* whose retrieval failed and whose classification is ready to be inserted
\* leaves its message classified
C23_RetrievalStep ==
    \A w \in Workers :
        LET m == worker[w].msg
        IN  /\ (worker[w].pc = "retrieve" /\ worker'[w] # worker[w]
                    /\ phase' = "running")
                  => /\ worker[w].attempts < MaxRetryAttempts
                     /\ worker'[w].pc = "classify"
                     /\ worker'[w].rerr # "none" <=> worker'[w].ctx = "empty"
                     /\ status'[m] = CLASSIFYING
                     /\ tally' = tally
                     /\ cyc'.failed = cyc.failed
            /\ (worker[w].pc = "persist" /\ worker[w].rerr # "none"
                    /\ worker'[w] = IdleWorker /\ phase' = "running"
                    /\ InsertAllowed(table, Row(m, worker[w].out)))
                  => status'[m] = CLASSIFIED

C24_ProcessedOnlyWithResult ==
    \A m \in Messages, v \in Versions :
        already_processed(table, m, v) => ResultsIn(table, m, v) # {}

\* C24, one step: after a step in which the attempt of the worker that
\* claimed the key ends in failure the key is not processed; and a message
\* without a result whose key no worker has claimed in the running cycle is
\* taken by a worker when it is presented
C24_FailureStep ==
    \A m \in Messages :
        /\ EndsInFailure(m) => ~already_processed(table', m, schemaVersion)
        /\ (Presented(m) /\ ~already_processed(table, m, schemaVersion)
                /\ ~Enqueued(claimed, generate_idempotency_key(m, schemaVersion)))
              => /\ status'[m] = CLASSIFYING
                 /\ \E w \in Workers :
                       /\ worker[w].pc = "idle"
                       /\ worker'[w].pc = "retrieve" /\ worker'[w].msg = m
                 /\ calls' = calls

\* C24: a key is marked processed only together with a persisted
\* ClassificationResult: when the worker that claimed a key ends its attempt
\* in failure, already_processed is false of the key afterwards and a later
\* cycle picks the message up again instead of skipping it
C24_FailureLeavesKeyOpen ==
    []C24_ProcessedOnlyWithResult /\ [][C24_FailureStep]_vars

\* an attempt ended failed after the retries were used up; a later cycle has
\* presented the message once and a worker has taken it
C24_Witness ==
    \E m \in Messages :
        /\ tally[m] = [count |-> 1, last_error |-> "ollama_timeout"]
        /\ status[m] = CLASSIFYING
        /\ Holders(m) # {}
        /\ cyc.scanned = 1 /\ cyc.skipped = 0 /\ cyc.failed = 0
        /\ ~already_processed(table, m, schemaVersion)

(***************************************************************************)
(* Every picked-up message is resolved within its cycle (C25).             *)
(***************************************************************************)
\* the running cycle ends: no worker and no delivery moves
CycleEnds ==
    /\ phase = "running" /\ phase' = "idle"
    /\ worker' = worker /\ deliveries' = deliveries

\* m was picked up in the running cycle
PickedUp(m) == Enqueued(claimed, generate_idempotency_key(m, schemaVersion))

\* an error of the classifier call of w is resolved in the step it arrives
\* in: into a retry, or into failed or quarantined with the cycle's failed
\* count raised
ErrorResolved(w) ==
    LET m == worker[w].msg
    IN  \/ worker'[w].pc = "classify" /\ status'[m] = CLASSIFYING
        \/ /\ worker'[w] = IdleWorker
           /\ status'[m] \in {FAILED, QUARANTINED}
           /\ cyc'.failed = cyc.failed + 1

C25_ErrorStep ==
    \A w \in Workers : CallErrorOf(w) # "none" => ErrorResolved(w)

C26_BoundedConcurrency ==
    pool.pc = "running" =>
        /\ pool.classify_concurrency >= 1
        /\ Cardinality(pool.classifying) <= pool.classify_concurrency

\* every worker of a pool of two is busy and a message waits in the batch
C26_Witness ==
    /\ pool.pc = "running"
    /\ pool.classify_concurrency = 2
    /\ Cardinality(pool.classifying) = 2
    /\ pool.queued # {}

(***************************************************************************)
(* The half-open breaker under concurrent callers (C27).                   *)
(***************************************************************************)
\* the calls that went through the half-open breaker and are in flight
ProbesInFlight ==
    {w \in Workers : breaker.state = "half_open" /\ breaker.probe = w
                        /\ worker[w].pc = "calling"}

\* C27, the probe: while the breaker is half-open with its probe taken, the
\* probe is one worker's call in flight
C27_OneProbe ==
    (breaker.state = "half_open" /\ breaker.probe # 0)
        => Cardinality(ProbesInFlight) = 1

\* C27, one step: a worker that calls through the half-open breaker becomes
\* the probe when there is none and is failed fast, without a call, when
\* the probe is taken; and the probe stays taken until its own call returns
C27_HalfOpenStep ==
    /\ \A w \in Workers :
          LET m == worker[w].msg
          IN  (breaker.state = "half_open" /\ worker[w].pc = "classify"
                  /\ worker'[w] # worker[w])
                  => IF breaker.probe = 0
                     THEN /\ worker'[w].pc = "calling"
                          /\ breaker' = [breaker EXCEPT !.probe = w]
                          /\ calls'[m].classify = calls[m].classify + 1
                     ELSE /\ worker'[w] = IdleWorker
                          /\ calls' = calls
                          /\ tally'[m].last_error = "fast_fail"
                          /\ status'[m] \in {FAILED, QUARANTINED}
                          /\ breaker' = breaker
    /\ (breaker.state = "half_open" /\ breaker.probe # 0 /\ breaker' # breaker)
          => worker'[breaker.probe].pc # "calling"

\* C27: while the breaker is half-open and several workers call through it
\* at the same time, at most one call, the probe, reaches the classifier;
\* every other call is failed fast until the outcome of the probe has moved
\* the breaker
C27_SingleProbe == []C27_OneProbe /\ [][C27_HalfOpenStep]_vars

\* the breaker is half-open, one worker's call is the probe in flight and
\* the other worker is about to call for the other message
C27_Witness ==
    \E w \in Workers, u \in Workers :
        /\ breaker.state = "half_open" /\ breaker.probe = w
        /\ worker[w].pc = "calling"
        /\ worker[u].pc = "classify"
        /\ worker[u].msg # worker[w].msg

(***************************************************************************)
(* One tally per message across schema versions (C28).                     *)
(***************************************************************************)
\* C28, one step: every terminal failure adds one to the message's one
\* tally, whatever the schema version of the attempt, and the message is
\* quarantined exactly when that tally has reached the threshold; a change
\* of the schema version leaves every tally and every status as it was
C28_TallyStep ==
    /\ \A m \in Messages :
          TerminalFailure(m)
              => /\ tally'[m].count = tally[m].count + 1
                 /\ status'[m] = QUARANTINED <=> tally'[m].count >= QuarantineThreshold
                 /\ status'[m] \in {FAILED, QUARANTINED}
    /\ schemaVersion' # schemaVersion => (tally' = tally /\ status' = status)

FastFailed(w) ==
    /\ worker[w].pc = "classify" /\ worker'[w] = IdleWorker

\* C29, one step: a message becomes failed or quarantined only out of an
\* attempt (classifying), in a step that applies record_failure to its tally
\* exactly once and quarantines it exactly when should_quarantine says so;
\* a call failed fast is such a step and invokes no classifier
C29_FailureStep ==
    /\ \A m \in Messages :
          (status'[m] \in {FAILED, QUARANTINED} /\ status'[m] # status[m])
              => /\ status[m] = CLASSIFYING
                 /\ tally'[m].count = tally[m].count + 1
                 /\ status'[m] = QUARANTINED <=> should_quarantine(tally'[m])
                 /\ \A n \in Messages \ {m} : tally'[n] = tally[n]
    /\ \A w \in Workers :
          FastFailed(w)
              => /\ tally'[worker[w].msg].count = tally[worker[w].msg].count + 1
                 /\ tally'[worker[w].msg].last_error = "fast_fail"
                 /\ status'[worker[w].msg] \in {FAILED, QUARANTINED}
                 /\ invoked' = invoked /\ calls' = calls /\ breaker' = breaker

\* a message the classifier was never called for has failed by fast-fails
\* only, and it is quarantined once they are threshold-many in a row
C29_NeverInvoked ==
    \A m \in Messages :
        m \notin invoked
            => /\ calls[m].classify = 0
               /\ tally[m].count > 0 => tally[m].last_error = "fast_fail"
               /\ tally[m].count >= QuarantineThreshold => status[m] = QUARANTINED

\* C29: every transition of a message to failed or quarantined comes with
\* exactly one record_failure on its tally in the same attempt, aborts by a
\* breaker fast-fail included; so a message that is only ever failed fast,
\* cycle after cycle, is quarantined at the threshold without the classifier
\* having been invoked for it
C29_OneRecordPerFailure == []C29_NeverInvoked /\ [][C29_FailureStep]_vars

\* a message is quarantined after three fast-fails in a row, the breaker is
\* open and the classifier has never been called for the message
C29_Witness ==
    \E m \in Messages :
        /\ status[m] = QUARANTINED
        /\ tally[m] = [count |-> QuarantineThreshold, last_error |-> "fast_fail"]
        /\ m \notin invoked
        /\ breaker.state = "open"

(***************************************************************************)
(* A failed message is classified once the classifier has recovered (C30). *)
(***************************************************************************)
\* the message is failed below the quarantine threshold, the classifier has
\* recovered and the breaker is no longer open
Recoverable(m) ==
    /\ healthy
    /\ status[m] = FAILED
    /\ tally[m].count < QuarantineThreshold
    /\ ~CircuitOpen(breaker)

ClassifiedOnce(m) ==
    /\ status[m] = CLASSIFIED
    /\ Cardinality(ResultsIn(table, m, schemaVersion)) = 1

\* C30: a failed message whose tally is below the quarantine threshold is
\* picked up again by a later polling cycle and, once the classifier
\* succeeds for it and the breaker's cooldown has elapsed, eventually is
\* classified with exactly one ClassificationResult
C30_FailedEventuallyClassified ==
    \A m \in Polled : Recoverable(m) ~> ClassifiedOnce(m)

====
